---- MODULE Spec2Model ----
(***************************************************************************)
(* Model of jaxlib/hipsolver.py: the ROCm dense linear-algebra custom-call *)
(* builders trsm, potrf, getrf, geqrf, orgqr, syevd and gesvd.             *)
(*                                                                         *)
(* One call of one builder is followed through its steps: the operand      *)
(* shapes are read and validated, the provider's descriptor builder is     *)
(* invoked, the custom call is constructed, and the caller's buffers are   *)
(* extracted from the call's output tuple.  Python tuples are sequences    *)
(* (1-indexed here, 0-indexed in the source); tuple positions kept in the  *)
(* state (GetTupleElement indices, layouts) are the source's 0-based ones. *)
(***************************************************************************)
EXTENDS Integers, Sequences, FiniteSets, TLC

VARIABLES pc, op, args, builds, reply, calls, ret, err, log

vars == <<pc, op, args, builds, reply, calls, ret, err, log>>

----------------------------------------------------------------------------
(* Bounds of the explored inputs.                                          *)

\* trailing matrix dimensions and tau lengths range over 0..MaxDim
MaxDim == 5

\* trailing dimensions of the two trsm operands range over 1..MaxTrsmDim
MaxTrsmDim == 2

\* batch prefixes of the operands: none, one, two and three batch dimensions
BatchPrefixes ==
    {<< >>, <<2>>, <<4>>, <<10>>, <<2, 3>>, <<2, 4>>, <<3, 2>>, <<2, 3, 4>>}

\* batch prefixes of the two trsm operands
TrsmPrefixes == {<< >>, <<3>>, <<2, 3>>, <<2, 4>>}

\* operand dimension tuples too short to hold a matrix
ShortDims == {<< >>, <<3>>}

\* sizes on both sides of getrf's m // batch <= 128 threshold
LuBigDims == {8, 256, 258, 1024}

Dtypes == {"float32", "complex64"}

MatDims == {<<m, n>> : m \in 0..MaxDim, n \in 0..MaxDim}

LuDims == {<<m, n>> : m \in (0..MaxDim) \cup LuBigDims,
                      n \in (0..MaxDim) \cup LuBigDims}

OperandDims == {bd \o mn : bd \in BatchPrefixes, mn \in MatDims} \cup ShortDims

LuOperandDims == {bd \o mn : bd \in BatchPrefixes, mn \in LuDims} \cup ShortDims

TauDims == {bd \o <<k>> : bd \in BatchPrefixes, k \in 0..MaxDim} \cup {<< >>}

TrsmOperandDims ==
    {bd \o <<p, q>> : bd \in TrsmPrefixes, p \in 1..MaxTrsmDim, q \in 1..MaxTrsmDim}
        \cup {<<3>>}

----------------------------------------------------------------------------
(* Python helpers.                                                         *)

\* _prod = lambda xs: functools.reduce(operator.mul, xs, 1)
RECURSIVE _prod(_)
_prod(xs) == IF xs = << >> THEN 1 ELSE Head(xs) * _prod(Tail(xs))

\* np.finfo(dtype).dtype: the real type of the same precision
_real_type(dtype) == IF dtype = "complex64" THEN "float32" ELSE dtype

\* min(a, b)
min(a, b) == IF a <= b THEN a ELSE b

\* dims[:-2]
batch_dims_of(dims) == SubSeq(dims, 1, Len(dims) - 2)

\* the m of  m, n = dims[-2:]
m_of(dims) == dims[Len(dims) - 1]

\* the n of  m, n = dims[-2:]
n_of(dims) == dims[Len(dims)]

\* tuple(range(num_bd - 1, -1, -1))
scalar_layout(num_bd) == [i \in 1..num_bd |-> num_bd - i]

\* tuple(range(num_bd, -1, -1)), also written (num_bd, ) + scalar_layout
vector_layout(num_bd) == <<num_bd>> \o scalar_layout(num_bd)

\* a plausible slip: the two matrix dimensions in the other order
layout_minor_swapped(num_bd) == <<num_bd + 1, num_bd>> \o scalar_layout(num_bd)

\* (num_bd, num_bd + 1) + tuple(range(num_bd - 1, -1, -1))
layout(num_bd) == <<num_bd, num_bd + 1>> \o scalar_layout(num_bd)

\* gesvd's matrix_layout: column-major tiles on the m < n path
matrix_layout(num_bd, transposed) ==
    IF transposed THEN <<num_bd + 1, num_bd>> \o scalar_layout(num_bd)
    ELSE <<num_bd, num_bd + 1>> \o scalar_layout(num_bd)

\* _Shape.array_shape(dtype, dims, layout)
array_shape(dtype, dims, lay) ==
    [element_type |-> dtype, dimensions |-> dims, layout |-> lay]

\* the (0, ) * len(dims) and (1, ) * len(dims) of the slices
Repeat(v, len) == [i \in 1..len |-> v]

\* _ops.GetTupleElement(out, i): the i-th (0-based) declared output
GetTupleElement(out, i) ==
    [index |-> i,
     element_type |-> out.shape_with_layout[i + 1].element_type,
     dimensions |-> out.shape_with_layout[i + 1].dimensions,
     sliced |-> FALSE, start |-> << >>, limit |-> << >>, strides |-> << >>]

\* _ops.Slice(x, start, limit, strides)
Slice(x, start, limit, strides) ==
    [x EXCEPT !.dimensions =
                 [j \in 1..Len(limit) |->
                     (limit[j] - start[j] + strides[j] - 1) \div strides[j]],
              !.sliced = TRUE, !.start = start, !.limit = limit,
              !.strides = strides]

\* _ops.CustomCallWithLayout(c, target, operands, shape_with_layout, ...)
CustomCallWithLayout(target, operands, outs, operand_shapes, opaque) ==
    [target |-> target, operands |-> operands, shape_with_layout |-> outs,
     operand_shapes_with_layout |-> operand_shapes, opaque |-> opaque]

\* one invocation of a descriptor builder of _hipblas or _hipsolver
Build(name, params) == [name |-> name, params |-> params]

NoShape == [dims |-> << >>, dtype |-> "none"]

NoArgs ==
    [a |-> NoShape, b |-> NoShape, tau |-> << >>, left_side |-> FALSE,
     lower |-> FALSE, trans_a |-> FALSE, conj_a |-> FALSE, diag |-> FALSE,
     full_matrices |-> FALSE, compute_uv |-> FALSE]

NoReply == [lwork |-> 0, opaque |-> "none"]

\* what a descriptor builder returns: (lwork, opaque)
ProviderReplies ==
    {[lwork |-> 0, opaque |-> "desc0"], [lwork |-> 64, opaque |-> "desc1"]}

----------------------------------------------------------------------------
(* trsm                                                                    *)

\* a plausible slip: the element types of a and b not compared
trsm_validate_no_dtype(ar) ==
    LET dims == ar.b.dims
    IN  IF Len(dims) < 2 THEN "AssertionError"
        ELSE LET m == m_of(dims)
                 n == n_of(dims)
                 k == IF ar.left_side THEN m ELSE n
             IN  IF batch_dims_of(dims) \o <<k, k>> # ar.a.dims
                 THEN "ValueError"
                 ELSE IF ar.conj_a /\ ~ar.trans_a THEN "NotImplementedError"
                 ELSE "none"

\* a plausible slip: conjugation without transposition let through
trsm_validate_no_conj(ar) ==
    LET dims == ar.b.dims
    IN  IF Len(dims) < 2 THEN "AssertionError"
        ELSE LET m == m_of(dims)
                 n == n_of(dims)
                 k == IF ar.left_side THEN m ELSE n
             IN  IF batch_dims_of(dims) \o <<k, k>> # ar.a.dims
                      \/ ar.a.dtype # ar.b.dtype
                 THEN "ValueError"
                 ELSE "none"

\* lines 60-78: the asserts and raises before the descriptor is built
trsm_validate(ar) ==
    LET dims == ar.b.dims
    IN  IF Len(dims) < 2 THEN "AssertionError"
        ELSE LET m == m_of(dims)
                 n == n_of(dims)
                 k == IF ar.left_side THEN m ELSE n
             IN  IF batch_dims_of(dims) \o <<k, k>> # ar.a.dims
                      \/ ar.a.dtype # ar.b.dtype
                 THEN "ValueError"
                 ELSE IF ar.conj_a /\ ~ar.trans_a THEN "NotImplementedError"
                 ELSE "none"

trsm_descriptor(ar) ==
    LET dims == ar.b.dims
    IN  Build("build_trsm_batched_descriptor",
              <<ar.b.dtype, _prod(batch_dims_of(dims)), m_of(dims), n_of(dims),
                ar.left_side, ar.lower, ar.trans_a, ar.conj_a, ar.diag>>)

trsm_call(ar, lwork, opaque) ==
    LET dtype  == ar.b.dtype
        num_bd == Len(batch_dims_of(ar.b.dims))
    IN  CustomCallWithLayout(
            "hipblas_trsm_batched",
            <<"a", "b">>,
            <<array_shape(dtype, ar.b.dims, layout(num_bd)),
              array_shape("int8", <<lwork>>, <<0>>),
              array_shape("int8", <<lwork>>, <<0>>)>>,
            <<array_shape(dtype, ar.a.dims, layout(num_bd)),
              array_shape(dtype, ar.b.dims, layout(num_bd))>>,
            opaque)

trsm_return(ar, out) == <<GetTupleElement(out, 0)>>

----------------------------------------------------------------------------
(* potrf                                                                   *)

\* lines 103-107: the unpacking of dims[-2:] and the assert m == n
potrf_validate(ar) ==
    LET dims == ar.a.dims
    IN  IF Len(dims) < 2 THEN "ValueError"
        ELSE IF m_of(dims) # n_of(dims) THEN "AssertionError"
        ELSE "none"

potrf_descriptor(ar) ==
    LET dims == ar.a.dims
    IN  Build("build_potrf_descriptor",
              <<ar.a.dtype, ar.lower, _prod(batch_dims_of(dims)), n_of(dims)>>)

potrf_call(ar, lwork, opaque) ==
    LET dtype      == ar.a.dtype
        n          == n_of(ar.a.dims)
        batch_dims == batch_dims_of(ar.a.dims)
        num_bd     == Len(batch_dims)
    IN  CustomCallWithLayout(
            "hipsolver_potrf",
            <<"a">>,
            <<array_shape(dtype, batch_dims \o <<n, n>>, layout(num_bd)),
              array_shape("int32", batch_dims, scalar_layout(num_bd)),
              array_shape("int8", <<lwork>>, <<0>>)>>,
            <<array_shape(dtype, batch_dims \o <<n, n>>, layout(num_bd))>>,
            opaque)

potrf_return_all(ar, out) ==
    <<GetTupleElement(out, 0), GetTupleElement(out, 1), GetTupleElement(out, 2)>>

potrf_return(ar, out) == <<GetTupleElement(out, 0), GetTupleElement(out, 1)>>

----------------------------------------------------------------------------
(* getrf                                                                   *)

\* a plausible slip: the side length compared without the division by batch
getrf_batched_no_div(batch, m, n) == batch > 1 /\ m = n /\ m <= 128

\* line 147: if batch > 1 and m == n and m // batch <= 128
getrf_batched(batch, m, n) == batch > 1 /\ m = n /\ m \div batch <= 128

\* line 141: assert len(dims) >= 2
getrf_validate(ar) == IF Len(ar.a.dims) < 2 THEN "AssertionError" ELSE "none"

getrf_descriptor(ar) ==
    LET dims  == ar.a.dims
        m     == m_of(dims)
        n     == n_of(dims)
        batch == _prod(batch_dims_of(dims))
    IN  IF getrf_batched(batch, m, n)
        THEN Build("build_getrf_batched_descriptor", <<ar.a.dtype, batch, m>>)
        ELSE Build("build_getrf_descriptor", <<ar.a.dtype, batch, m, n>>)

getrf_call(ar, lwork, opaque) ==
    LET dtype      == ar.a.dtype
        m          == m_of(ar.a.dims)
        n          == n_of(ar.a.dims)
        batch_dims == batch_dims_of(ar.a.dims)
        num_bd     == Len(batch_dims)
        batched    == getrf_batched(_prod(batch_dims), m, n)
        workspace  == IF batched THEN array_shape("int8", <<lwork>>, <<0>>)
                      ELSE array_shape(dtype, <<lwork>>, <<0>>)
        kernel     == IF batched THEN "hipblas_getrf_batched"
                      ELSE "hipsolver_getrf"
    IN  CustomCallWithLayout(
            kernel,
            <<"a">>,
            <<array_shape(dtype, batch_dims \o <<m, n>>, layout(num_bd)),
              array_shape("int32", batch_dims \o <<min(m, n)>>,
                          vector_layout(num_bd)),
              array_shape("int32", batch_dims, scalar_layout(num_bd)),
              workspace>>,
            <<array_shape(dtype, batch_dims \o <<m, n>>, layout(num_bd))>>,
            opaque)

getrf_return_workspace(ar, out) ==
    <<GetTupleElement(out, 0), GetTupleElement(out, 1), GetTupleElement(out, 3)>>

getrf_return(ar, out) ==
    <<GetTupleElement(out, 0), GetTupleElement(out, 1), GetTupleElement(out, 2)>>

----------------------------------------------------------------------------
(* geqrf                                                                   *)

\* line 186: assert len(dims) >= 2
geqrf_validate(ar) == IF Len(ar.a.dims) < 2 THEN "AssertionError" ELSE "none"

geqrf_descriptor(ar) ==
    LET dims == ar.a.dims
    IN  Build("build_geqrf_descriptor",
              <<ar.a.dtype, _prod(batch_dims_of(dims)), m_of(dims), n_of(dims)>>)

geqrf_call(ar, lwork, opaque) ==
    LET dtype      == ar.a.dtype
        m          == m_of(ar.a.dims)
        n          == n_of(ar.a.dims)
        batch_dims == batch_dims_of(ar.a.dims)
        num_bd     == Len(batch_dims)
    IN  CustomCallWithLayout(
            "hipsolver_geqrf",
            <<"a">>,
            <<array_shape(dtype, batch_dims \o <<m, n>>, layout(num_bd)),
              array_shape(dtype, batch_dims \o <<min(m, n)>>,
                          vector_layout(num_bd)),
              array_shape("int32", batch_dims, scalar_layout(num_bd)),
              array_shape(dtype, <<lwork>>, <<0>>)>>,
            <<array_shape(dtype, batch_dims \o <<m, n>>, layout(num_bd))>>,
            opaque)

geqrf_return(ar, out) ==
    <<GetTupleElement(out, 0), GetTupleElement(out, 1), GetTupleElement(out, 2)>>

----------------------------------------------------------------------------
(* orgqr                                                                   *)

\* lines 225-233: the two asserts, and tau_dims[-1] of an empty tuple
orgqr_validate(ar) ==
    LET dims     == ar.a.dims
        tau_dims == ar.tau
    IN  IF Len(dims) < 2 THEN "AssertionError"
        ELSE IF SubSeq(tau_dims, 1, Len(tau_dims) - 1) # batch_dims_of(dims)
        THEN "AssertionError"
        ELSE IF Len(tau_dims) = 0 THEN "IndexError"
        ELSE "none"

orgqr_descriptor(ar) ==
    LET dims == ar.a.dims
    IN  Build("build_orgqr_descriptor",
              <<ar.a.dtype, _prod(batch_dims_of(dims)), m_of(dims), n_of(dims),
                ar.tau[Len(ar.tau)]>>)

orgqr_call(ar, lwork, opaque) ==
    LET dtype      == ar.a.dtype
        m          == m_of(ar.a.dims)
        n          == n_of(ar.a.dims)
        batch_dims == batch_dims_of(ar.a.dims)
        num_bd     == Len(batch_dims)
        k          == ar.tau[Len(ar.tau)]
    IN  CustomCallWithLayout(
            "hipsolver_orgqr",
            <<"a", "tau">>,
            <<array_shape(dtype, batch_dims \o <<m, n>>, layout(num_bd)),
              array_shape("int32", batch_dims, scalar_layout(num_bd)),
              array_shape(dtype, <<lwork>>, <<0>>)>>,
            <<array_shape(dtype, batch_dims \o <<m, n>>, layout(num_bd)),
              array_shape(dtype, batch_dims \o <<k>>, vector_layout(num_bd))>>,
            opaque)

orgqr_return(ar, out) == <<GetTupleElement(out, 0), GetTupleElement(out, 1)>>

----------------------------------------------------------------------------
(* syevd                                                                   *)

\* lines 268-270: assert len(dims) >= 2, assert m == n
syevd_validate(ar) ==
    LET dims == ar.a.dims
    IN  IF Len(dims) < 2 THEN "AssertionError"
        ELSE IF m_of(dims) # n_of(dims) THEN "AssertionError"
        ELSE "none"

syevd_descriptor(ar) ==
    LET dims == ar.a.dims
    IN  Build("build_syevd_descriptor",
              <<ar.a.dtype, ar.lower, _prod(batch_dims_of(dims)), n_of(dims)>>)

syevd_call(ar, lwork, opaque) ==
    LET dtype        == ar.a.dtype
        dims         == ar.a.dims
        n            == n_of(dims)
        batch_dims   == batch_dims_of(dims)
        num_bd       == Len(batch_dims)
        eigvals_type == _real_type(dtype)
    IN  CustomCallWithLayout(
            "hipsolver_syevd",
            <<"a">>,
            <<array_shape(dtype, dims, layout(num_bd)),
              array_shape(eigvals_type, batch_dims \o <<n>>,
                          vector_layout(num_bd)),
              array_shape("int32", batch_dims, scalar_layout(num_bd)),
              array_shape(dtype, <<lwork>>, <<0>>)>>,
            <<array_shape(dtype, dims, layout(num_bd))>>,
            opaque)

syevd_return(ar, out) ==
    <<GetTupleElement(out, 0), GetTupleElement(out, 1), GetTupleElement(out, 2)>>

----------------------------------------------------------------------------
(* gesvd                                                                   *)

\* line 306: assert len(dims) >= 2
gesvd_validate(ar) == IF Len(ar.a.dims) < 2 THEN "AssertionError" ELSE "none"

\* a plausible slip: the operand's own (m, n) handed to the provider
gesvd_descriptor_unresolved(ar) ==
    LET dims == ar.a.dims
    IN  Build("build_gesvd_descriptor",
              <<ar.a.dtype, _prod(batch_dims_of(dims)), m_of(dims), n_of(dims),
                ar.compute_uv, ar.full_matrices>>)

\* lines 315-318 and 346-348
gesvd_descriptor(ar) ==
    LET dims == ar.a.dims
        m    == m_of(dims)
        n    == n_of(dims)
        b    == _prod(batch_dims_of(dims))
    IN  IF m < n
        THEN Build("build_gesvd_descriptor",
                   <<ar.a.dtype, b, n, m, ar.compute_uv, ar.full_matrices>>)
        ELSE Build("build_gesvd_descriptor",
                   <<ar.a.dtype, b, m, n, ar.compute_uv, ar.full_matrices>>)

\* a plausible slip: the m < n path declaring its outputs like the other path
gesvd_call_same_outputs(ar, lwork, opaque) ==
    LET dtype      == ar.a.dtype
        m          == m_of(ar.a.dims)
        n          == n_of(ar.a.dims)
        batch_dims == batch_dims_of(ar.a.dims)
        num_bd     == Len(batch_dims)
        ml         == matrix_layout(num_bd, m < n)
    IN  CustomCallWithLayout(
            "hipsolver_gesvd",
            <<"a">>,
            <<array_shape(dtype, batch_dims \o <<m, n>>, ml),
              array_shape(_real_type(dtype), batch_dims \o <<min(m, n)>>,
                          vector_layout(num_bd)),
              array_shape(dtype, batch_dims \o <<m, m>>, ml),
              array_shape(dtype, batch_dims \o <<n, n>>, ml),
              array_shape("int32", batch_dims, scalar_layout(num_bd)),
              array_shape(dtype, <<lwork>>, <<0>>)>>,
            <<array_shape(dtype, batch_dims \o <<m, n>>, ml)>>,
            opaque)

\* lines 319-340 and 350-371
gesvd_call(ar, lwork, opaque) ==
    LET dtype               == ar.a.dtype
        m                   == m_of(ar.a.dims)
        n                   == n_of(ar.a.dims)
        batch_dims          == batch_dims_of(ar.a.dims)
        num_bd              == Len(batch_dims)
        singular_vals_dtype == _real_type(dtype)
    IN  IF m < n
        THEN CustomCallWithLayout(
                 "hipsolver_gesvd",
                 <<"a">>,
                 <<array_shape(dtype, batch_dims \o <<m, n>>,
                               matrix_layout(num_bd, TRUE)),
                   array_shape(singular_vals_dtype, batch_dims \o <<min(m, n)>>,
                               vector_layout(num_bd)),
                   array_shape(dtype, batch_dims \o <<n, n>>,
                               matrix_layout(num_bd, TRUE)),
                   array_shape(dtype, batch_dims \o <<m, m>>,
                               matrix_layout(num_bd, TRUE)),
                   array_shape("int32", batch_dims, scalar_layout(num_bd)),
                   array_shape(dtype, <<lwork>>, <<0>>)>>,
                 <<array_shape(dtype, batch_dims \o <<m, n>>,
                               matrix_layout(num_bd, TRUE))>>,
                 opaque)
        ELSE CustomCallWithLayout(
                 "hipsolver_gesvd",
                 <<"a">>,
                 <<array_shape(dtype, batch_dims \o <<m, n>>,
                               matrix_layout(num_bd, FALSE)),
                   array_shape(singular_vals_dtype, batch_dims \o <<min(m, n)>>,
                               vector_layout(num_bd)),
                   array_shape(dtype, batch_dims \o <<m, m>>,
                               matrix_layout(num_bd, FALSE)),
                   array_shape(dtype, batch_dims \o <<n, n>>,
                               matrix_layout(num_bd, FALSE)),
                   array_shape("int32", batch_dims, scalar_layout(num_bd)),
                   array_shape(dtype, <<lwork>>, <<0>>)>>,
                 <<array_shape(dtype, batch_dims \o <<m, n>>,
                               matrix_layout(num_bd, FALSE))>>,
                 opaque)

\* lines 376-380: the economy-form slices of u and vt
gesvd_slices(ar, s, u, vt, info) ==
    LET dims       == ar.a.dims
        m          == m_of(dims)
        n          == n_of(dims)
        batch_dims == batch_dims_of(dims)
    IN  IF ~ar.full_matrices
        THEN <<s,
               Slice(u, Repeat(0, Len(dims)), batch_dims \o <<m, min(m, n)>>,
                     Repeat(1, Len(dims))),
               Slice(vt, Repeat(0, Len(dims)), batch_dims \o <<min(m, n), n>>,
                     Repeat(1, Len(dims))),
               info>>
        ELSE <<s, u, vt, info>>

\* a plausible slip: u and vt read from the same positions on both paths
gesvd_return_same_positions(ar, out) ==
    gesvd_slices(ar, GetTupleElement(out, 1), GetTupleElement(out, 2),
                 GetTupleElement(out, 3), GetTupleElement(out, 4))

\* lines 341-344, 372-375 and 381
gesvd_return(ar, out) ==
    IF m_of(ar.a.dims) < n_of(ar.a.dims)
    THEN gesvd_slices(ar, GetTupleElement(out, 1), GetTupleElement(out, 3),
                      GetTupleElement(out, 2), GetTupleElement(out, 4))
    ELSE gesvd_slices(ar, GetTupleElement(out, 1), GetTupleElement(out, 2),
                      GetTupleElement(out, 3), GetTupleElement(out, 4))

----------------------------------------------------------------------------
(* The steps of one call, by operation.                                    *)

Validate(o, ar) ==
    CASE o = "trsm"  -> trsm_validate(ar)
      [] o = "potrf" -> potrf_validate(ar)
      [] o = "getrf" -> getrf_validate(ar)
      [] o = "geqrf" -> geqrf_validate(ar)
      [] o = "orgqr" -> orgqr_validate(ar)
      [] o = "syevd" -> syevd_validate(ar)
      [] o = "gesvd" -> gesvd_validate(ar)

Descriptor(o, ar) ==
    CASE o = "trsm"  -> trsm_descriptor(ar)
      [] o = "potrf" -> potrf_descriptor(ar)
      [] o = "getrf" -> getrf_descriptor(ar)
      [] o = "geqrf" -> geqrf_descriptor(ar)
      [] o = "orgqr" -> orgqr_descriptor(ar)
      [] o = "syevd" -> syevd_descriptor(ar)
      [] o = "gesvd" -> gesvd_descriptor(ar)

Call(o, ar, lwork, opaque) ==
    CASE o = "trsm"  -> trsm_call(ar, lwork, opaque)
      [] o = "potrf" -> potrf_call(ar, lwork, opaque)
      [] o = "getrf" -> getrf_call(ar, lwork, opaque)
      [] o = "geqrf" -> geqrf_call(ar, lwork, opaque)
      [] o = "orgqr" -> orgqr_call(ar, lwork, opaque)
      [] o = "syevd" -> syevd_call(ar, lwork, opaque)
      [] o = "gesvd" -> gesvd_call(ar, lwork, opaque)

Return(o, ar, out) ==
    CASE o = "trsm"  -> trsm_return(ar, out)
      [] o = "potrf" -> potrf_return(ar, out)
      [] o = "getrf" -> getrf_return(ar, out)
      [] o = "geqrf" -> geqrf_return(ar, out)
      [] o = "orgqr" -> orgqr_return(ar, out)
      [] o = "syevd" -> syevd_return(ar, out)
      [] o = "gesvd" -> gesvd_return(ar, out)

----------------------------------------------------------------------------
(* State machine.                                                          *)

Init ==
    /\ pc = "idle"
    /\ op = "none"
    /\ args = NoArgs
    /\ builds = << >>
    /\ reply = NoReply
    /\ calls = << >>
    /\ ret = << >>
    /\ err = "none"
    /\ log = << >>

\* the caller invokes operation o: its operands are read and validated
Enter(o, ar) ==
    LET e == Validate(o, ar)
    IN  /\ op' = o
        /\ args' = ar
        /\ err' = e
        /\ pc' = IF e = "none" THEN "build" ELSE "raised"
        /\ log' = <<"validate">>
        /\ UNCHANGED <<builds, reply, calls, ret>>

trsm ==
    /\ pc = "idle"
    /\ \E a \in TrsmOperandDims, b \in TrsmOperandDims, da \in Dtypes, db \in Dtypes,
       left_side \in BOOLEAN, lower \in BOOLEAN, trans_a \in BOOLEAN,
       conj_a \in BOOLEAN, diag \in BOOLEAN :
        Enter("trsm",
              [NoArgs EXCEPT !.a = [dims |-> a, dtype |-> da],
                             !.b = [dims |-> b, dtype |-> db],
                             !.left_side = left_side, !.lower = lower,
                             !.trans_a = trans_a, !.conj_a = conj_a,
                             !.diag = diag])

potrf ==
    /\ pc = "idle"
    /\ \E a \in OperandDims, d \in Dtypes, lower \in BOOLEAN :
        Enter("potrf", [NoArgs EXCEPT !.a = [dims |-> a, dtype |-> d],
                                      !.lower = lower])

getrf ==
    /\ pc = "idle"
    /\ \E a \in LuOperandDims, d \in Dtypes :
        Enter("getrf", [NoArgs EXCEPT !.a = [dims |-> a, dtype |-> d]])

geqrf ==
    /\ pc = "idle"
    /\ \E a \in OperandDims, d \in Dtypes :
        Enter("geqrf", [NoArgs EXCEPT !.a = [dims |-> a, dtype |-> d]])

orgqr ==
    /\ pc = "idle"
    /\ \E a \in OperandDims, d \in Dtypes, tau \in TauDims :
        Enter("orgqr", [NoArgs EXCEPT !.a = [dims |-> a, dtype |-> d],
                                      !.tau = tau])

syevd ==
    /\ pc = "idle"
    /\ \E a \in OperandDims, d \in Dtypes, lower \in BOOLEAN :
        Enter("syevd", [NoArgs EXCEPT !.a = [dims |-> a, dtype |-> d],
                                      !.lower = lower])

gesvd ==
    /\ pc = "idle"
    /\ \E a \in OperandDims, d \in Dtypes, full_matrices \in BOOLEAN,
       compute_uv \in BOOLEAN :
        Enter("gesvd", [NoArgs EXCEPT !.a = [dims |-> a, dtype |-> d],
                                      !.full_matrices = full_matrices,
                                      !.compute_uv = compute_uv])

\* the provider's descriptor builder returns (lwork, opaque)
BuildDescriptor ==
    /\ pc = "build"
    /\ \E r \in ProviderReplies : reply' = r
    /\ builds' = Append(builds, Descriptor(op, args))
    /\ pc' = "call"
    /\ log' = Append(log, "build")
    /\ UNCHANGED <<op, args, calls, ret, err>>

\* the provider's descriptor builder raises: the exception leaves the call
BuildDescriptorFails ==
    /\ pc = "build"
    /\ builds' = Append(builds, Descriptor(op, args))
    /\ err' = "BuildError"
    /\ pc' = "raised"
    /\ log' = Append(log, "build")
    /\ UNCHANGED <<op, args, reply, calls, ret>>

\* out = _ops.CustomCallWithLayout(...)
ConstructCall ==
    /\ pc = "call"
    /\ calls' = Append(calls, Call(op, args, reply.lwork, reply.opaque))
    /\ pc' = "extract"
    /\ log' = Append(log, "call")
    /\ UNCHANGED <<op, args, builds, reply, ret, err>>

\* return _ops.GetTupleElement(out, ...), ...
ReturnOutputs ==
    /\ pc = "extract"
    /\ ret' = Return(op, args, calls[1])
    /\ pc' = "done"
    /\ log' = Append(log, "extract")
    /\ UNCHANGED <<op, args, builds, reply, calls, err>>

\* the call has returned or raised; nothing of it is kept for the next one
NextCall ==
    /\ pc \in {"done", "raised"}
    /\ pc' = "idle"
    /\ op' = "none"
    /\ args' = NoArgs
    /\ builds' = << >>
    /\ reply' = NoReply
    /\ calls' = << >>
    /\ ret' = << >>
    /\ err' = "none"
    /\ log' = << >>

Next ==
    \/ trsm
    \/ potrf
    \/ getrf
    \/ geqrf
    \/ orgqr
    \/ syevd
    \/ gesvd
    \/ BuildDescriptor
    \/ BuildDescriptorFails
    \/ ConstructCall
    \/ ReturnOutputs
    \/ NextCall

Spec == Init /\ [][Next]_vars

----------------------------------------------------------------------------
(* Properties.                                                             *)

\* the operand whose batch prefix and trailing (m, n) the call is built from
Primary == IF op = "trsm" THEN args.b ELSE args.a

PM == m_of(Primary.dims)

PN == n_of(Primary.dims)

PBatchDims == batch_dims_of(Primary.dims)

PNumBd == Len(PBatchDims)

PBatch == _prod(PBatchDims)

\* the last two entries of a dimension tuple
Trailing(dims) == <<dims[Len(dims) - 1], dims[Len(dims)]>>

\* (k-1, ..., 0)
Down(k) == [i \in 1..k |-> k - i]

\* C1: getrf builds the batched small-matrix kernel (hipblas_getrf_batched,
\* descriptor from (batch, m)) iff batch > 1, m = n and floor(m / batch) <= 128,
\* and the general kernel (hipsolver_getrf, descriptor from (batch, m, n))
\* otherwise; batch=4, m=n=8 is batched and batch=1, m=n=1024 is general.
C1_getrf_kernel_choice ==
    (op = "getrf" /\ builds # << >>) =>
        LET small   == PBatch > 1 /\ PM = PN /\ PM \div PBatch <= 128
            batched == builds[1].name = "build_getrf_batched_descriptor"
            general == builds[1].name = "build_getrf_descriptor"
        IN  /\ batched <=> small
            /\ general <=> ~small
            /\ batched => builds[1].params = <<args.a.dtype, PBatch, PM>>
            /\ general => builds[1].params = <<args.a.dtype, PBatch, PM, PN>>
            /\ calls # << >> =>
                   calls[1].target = IF small THEN "hipblas_getrf_batched"
                                     ELSE "hipsolver_getrf"
            /\ (PBatch = 4 /\ PM = 8 /\ PN = 8) => batched
            /\ (PBatch = 1 /\ PM = 1024 /\ PN = 1024) => general

C1_witness ==
    /\ op = "getrf" /\ pc = "done"
    /\ args.a.dims = <<4, 8, 8>>
    /\ builds[1].name = "build_getrf_batched_descriptor"
    /\ calls[1].target = "hipblas_getrf_batched"

\* C2 as stated: gesvd returns left vectors of trailing shape (m, m) in full
\* form and (m, min(m,n)) in economy form, and right vectors of trailing shape
\* (n, n) in full form and (n, min(m,n)) in economy form.
C2_original ==
    (op = "gesvd" /\ pc = "done") =>
        LET k == min(PM, PN)
        IN  /\ Trailing(ret[2].dimensions) =
                   IF args.full_matrices THEN <<PM, PM>> ELSE <<PM, k>>
            /\ Trailing(ret[3].dimensions) =
                   IF args.full_matrices THEN <<PN, PN>> ELSE <<PN, k>>

\* C2 amended: on both gesvd paths and for both values of full_matrices the
\* left-vector matrix has trailing shape (m, m) in full form and (m, min(m,n))
\* in economy form, and the right-vector matrix has trailing shape (n, n) in
\* full form and (min(m,n), n) in economy form; with m=3, n=5 the operand is
\* declared column-major (the transposed path) and the shapes are still those
\* of the operand as given.
C2_gesvd_vector_shapes ==
    (op = "gesvd" /\ pc = "done") =>
        LET k == min(PM, PN)
        IN  /\ Trailing(ret[2].dimensions) =
                   IF args.full_matrices THEN <<PM, PM>> ELSE <<PM, k>>
            /\ Trailing(ret[3].dimensions) =
                   IF args.full_matrices THEN <<PN, PN>> ELSE <<k, PN>>
            /\ (PM = 3 /\ PN = 5) =>
                   /\ calls[1].operand_shapes_with_layout[1].layout[1] = PNumBd + 1
                   /\ Trailing(ret[2].dimensions)[1] = 3
                   /\ Trailing(ret[3].dimensions)[2] = 5

C2_witness ==
    /\ op = "gesvd" /\ pc = "done"
    /\ PM = 3 /\ PN = 5 /\ ~args.full_matrices
    /\ Trailing(ret[2].dimensions) = <<3, 3>>
    /\ Trailing(ret[3].dimensions) = <<3, 5>>

\* C3: with full_matrices=False gesvd returns the left vectors as the slice of
\* shape batch_dims + (m, min(m,n)) and the right vectors as the slice of shape
\* batch_dims + (min(m,n), n), both from index 0 with stride 1 and inside the
\* declared buffer they are cut from, on the m < n path and on the other alike.
C3_gesvd_economy_slices ==
    (op = "gesvd" /\ pc = "done" /\ ~args.full_matrices) =>
        LET k    == min(PM, PN)
            rank == Len(args.a.dims)
            Inside(x) ==
                LET declared == calls[1].shape_with_layout[x.index + 1].dimensions
                IN  /\ x.sliced
                    /\ Len(declared) = rank
                    /\ x.start = [j \in 1..rank |-> 0]
                    /\ x.strides = [j \in 1..rank |-> 1]
                    /\ Len(x.limit) = rank
                    /\ \A j \in 1..rank : x.limit[j] <= declared[j]
        IN  /\ Inside(ret[2])
            /\ Inside(ret[3])
            /\ ret[2].dimensions = PBatchDims \o <<PM, k>>
            /\ ret[3].dimensions = PBatchDims \o <<k, PN>>

C3_witness ==
    /\ op = "gesvd" /\ pc = "done" /\ ~args.full_matrices
    /\ args.a.dims = <<2, 3, 2, 4>>
    /\ ret[2].sliced /\ ret[2].dimensions = <<2, 3, 2, 2>>
    /\ ret[3].sliced /\ ret[3].dimensions = <<2, 3, 2, 4>>

\* C4: a trsm call whose a is not b's batch prefix followed by (k, k), with
\* k = m if left_side else n, or whose a has another element type than b,
\* raises the argument-mismatch ValueError, builds no descriptor and
\* constructs no call; any other trsm call raises no such error.
C4_trsm_mismatch ==
    (op = "trsm" /\ Len(args.b.dims) >= 2) =>
        LET k        == IF args.left_side THEN PM ELSE PN
            mismatch == \/ args.a.dims # PBatchDims \o <<k, k>>
                        \/ args.a.dtype # args.b.dtype
        IN  /\ mismatch => (err = "ValueError" /\ pc = "raised"
                            /\ builds = << >> /\ calls = << >> /\ ret = << >>)
            /\ ~mismatch => err # "ValueError"

C4_witness ==
    /\ op = "trsm" /\ err = "ValueError" /\ pc = "raised"
    /\ batch_dims_of(args.a.dims) = <<2, 3>>
    /\ batch_dims_of(args.b.dims) = <<2, 4>>
    /\ args.a.dtype = args.b.dtype
    /\ builds = << >> /\ calls = << >>

\* C5: an accepted potrf call on batch_dims + (n, n) returns exactly two
\* buffers: element 0 of the declared outputs, the matrix of shape
\* batch_dims + (n, n), then element 1, the int32 status of shape batch_dims;
\* element 2, the workspace, is declared and not returned.
C5_potrf_returns_two ==
    (op = "potrf" /\ pc = "done") =>
        /\ Len(ret) = 2
        /\ ret[1].index = 0
        /\ ret[1].dimensions = PBatchDims \o <<PN, PN>>
        /\ ret[1].dimensions = args.a.dims
        /\ ret[1].element_type = args.a.dtype
        /\ ret[2].index = 1
        /\ ret[2].dimensions = PBatchDims
        /\ ret[2].element_type = "int32"
        /\ Len(calls[1].shape_with_layout) = 3
        /\ calls[1].shape_with_layout[3].dimensions = <<reply.lwork>>
        /\ \A i \in 1..Len(ret) : ret[i].index # 2 /\ ~ret[i].sliced

C5_witness ==
    /\ op = "potrf" /\ pc = "done"
    /\ args.a.dims = <<10, 4, 4>>
    /\ Len(ret) = 2
    /\ ret[1].dimensions = <<10, 4, 4>>
    /\ ret[2].dimensions = <<10>>

\* C6 as stated: getrf, geqrf and orgqr each return exactly three buffers:
\* the matrix of shape batch_dims + (m, n), a vector with the batch prefix and
\* one trailing dimension, and the status of shape batch_dims; the workspace
\* is not returned.
C6_original ==
    (op \in {"getrf", "geqrf", "orgqr"} /\ pc = "done") =>
        /\ Len(ret) = 3
        /\ ret[1].dimensions = PBatchDims \o <<PM, PN>>
        /\ Len(ret[2].dimensions) = PNumBd + 1
        /\ SubSeq(ret[2].dimensions, 1, PNumBd) = PBatchDims
        /\ ret[3].dimensions = PBatchDims
        /\ \A i \in 1..Len(ret) :
               ret[i].index # Len(calls[1].shape_with_layout) - 1

\* C6 amended: getrf and geqrf return exactly three buffers, elements 0, 1, 2
\* of the declared outputs: the matrix of shape batch_dims + (m, n), the
\* pivots or tau of shape batch_dims + (min(m,n),) and the int32 status of
\* shape batch_dims.  orgqr returns exactly two, elements 0 and 1: the matrix
\* of shape batch_dims + (m, n) and the int32 status of shape batch_dims.  In
\* all three the workspace, the last declared output, is not returned.
C6_lu_qr_returns ==
    (op \in {"getrf", "geqrf", "orgqr"} /\ pc = "done") =>
        /\ ret[1].index = 0
        /\ ret[1].dimensions = PBatchDims \o <<PM, PN>>
        /\ \A i \in 1..Len(ret) :
               /\ ret[i].index # Len(calls[1].shape_with_layout) - 1
               /\ ~ret[i].sliced
        /\ calls[1].shape_with_layout[Len(calls[1].shape_with_layout)].dimensions
               = <<reply.lwork>>
        /\ op \in {"getrf", "geqrf"} =>
               /\ Len(ret) = 3
               /\ ret[2].index = 1
               /\ ret[2].dimensions = PBatchDims \o <<min(PM, PN)>>
               /\ ret[3].index = 2
               /\ ret[3].dimensions = PBatchDims
               /\ ret[3].element_type = "int32"
        /\ op = "orgqr" =>
               /\ Len(ret) = 2
               /\ ret[2].index = 1
               /\ ret[2].dimensions = PBatchDims
               /\ ret[2].element_type = "int32"

C6_witness ==
    /\ op = "orgqr" /\ pc = "done"
    /\ args.a.dims = <<2, 3, 5, 4>> /\ args.tau = <<2, 3, 4>>
    /\ Len(ret) = 2
    /\ Len(calls[1].shape_with_layout) = 3

\* C7 as stated: orgqr accepts a call only when tau has a's batch prefix and a
\* trailing dimension k <= min(m, n); any other call is rejected, with no
\* descriptor built and no custom call constructed.
C7_original ==
    (op = "orgqr" /\ Len(args.a.dims) >= 2) =>
        LET tau == args.tau
            ok  == /\ Len(tau) >= 1
                   /\ SubSeq(tau, 1, Len(tau) - 1) = PBatchDims
                   /\ tau[Len(tau)] <= min(PM, PN)
        IN  ~ok => (err # "none" /\ pc = "raised"
                    /\ builds = << >> /\ calls = << >>)

\* the layout each kind of buffer is said to have: matrix, vector, status,
\* workspace
Canonical(kind, num_bd) ==
    CASE kind = "M" -> <<num_bd, num_bd + 1>> \o Down(num_bd)
      [] kind = "V" -> Down(num_bd + 1)
      [] kind = "S" -> Down(num_bd)
      [] kind = "W" -> <<0>>

\* the kind of each declared output, by operation
OutputKinds ==
    CASE op = "trsm"  -> <<"M", "W", "W">>
      [] op = "potrf" -> <<"M", "S", "W">>
      [] op = "getrf" -> <<"M", "V", "S", "W">>
      [] op = "geqrf" -> <<"M", "V", "S", "W">>
      [] op = "orgqr" -> <<"M", "S", "W">>
      [] op = "syevd" -> <<"M", "V", "S", "W">>
      [] op = "gesvd" -> <<"M", "V", "M", "M", "S", "W">>

\* the kind of each operand, by operation
OperandKinds ==
    CASE op = "trsm"  -> <<"M", "M">>
      [] op = "orgqr" -> <<"M", "V">>
      [] OTHER        -> <<"M">>

\* every declared buffer of the call has the layout Lay gives its kind
LayoutsAre(Lay(_)) ==
    LET outs == calls[1].shape_with_layout
        ins  == calls[1].operand_shapes_with_layout
    IN  /\ Len(outs) = Len(OutputKinds)
        /\ Len(ins) = Len(OperandKinds)
        /\ \A i \in 1..Len(outs) :
               /\ outs[i].layout = Lay(OutputKinds[i])
               /\ OutputKinds[i] = "W" => Len(outs[i].dimensions) = 1
               /\ OutputKinds[i] = "M" => Len(outs[i].dimensions) = PNumBd + 2
               /\ OutputKinds[i] = "V" => Len(outs[i].dimensions) = PNumBd + 1
               /\ OutputKinds[i] = "S" => Len(outs[i].dimensions) = PNumBd
        /\ \A i \in 1..Len(ins) : ins[i].layout = Lay(OperandKinds[i])

\* C8 as stated: in every call of the seven operations every matrix-shaped
\* buffer is declared with layout (num_bd, num_bd+1, num_bd-1, ..., 0), every
\* vector-shaped one with (num_bd, ..., 0), every status buffer with
\* (num_bd-1, ..., 0) and every workspace as a 1-D buffer with layout (0,).
C8_original ==
    calls # << >> =>
        LET Lay(kind) == Canonical(kind, PNumBd)
        IN  LayoutsAre(Lay)

\* C8 amended: as stated, except that on gesvd's m < n path every
\* matrix-shaped buffer (the operand and outputs 0, 2 and 3) is declared with
\* layout (num_bd+1, num_bd, num_bd-1, ..., 0).
C8_layouts ==
    calls # << >> =>
        LET Lay(kind) ==
                IF op = "gesvd" /\ PM < PN /\ kind = "M"
                THEN <<PNumBd + 1, PNumBd>> \o Down(PNumBd)
                ELSE Canonical(kind, PNumBd)
        IN  LayoutsAre(Lay)

C8_witness ==
    /\ op = "gesvd" /\ pc = "done"
    /\ args.a.dims = <<2, 3, 4, 2, 5>>
    /\ calls[1].shape_with_layout[3].layout = <<4, 3, 2, 1, 0>>
    /\ calls[1].shape_with_layout[2].layout = <<3, 2, 1, 0>>
    /\ calls[1].shape_with_layout[5].layout = <<2, 1, 0>>
    /\ calls[1].shape_with_layout[6].layout = <<0>>

\* C9: gesvd takes the transposed path iff m < n and hands the provider
\* (rows, cols) = (n, m) when m < n and (m, n) otherwise, so rows = max(m, n)
\* and cols = min(m, n).  On the m < n path output 2 has trailing shape (n, n)
\* and is returned as the right vectors, output 3 has (m, m) and is returned
\* as the left vectors; on the other path output 2 is (m, m) and left, output
\* 3 is (n, n) and right.
C9_gesvd_resolved_dims ==
    (op = "gesvd" /\ builds # << >>) =>
        LET p == builds[1].params
        IN  /\ builds[1].name = "build_gesvd_descriptor"
            /\ p = <<args.a.dtype, PBatch,
                     IF PM < PN THEN PN ELSE PM, IF PM < PN THEN PM ELSE PN,
                     args.compute_uv, args.full_matrices>>
            /\ p[3] >= p[4]
            /\ p[3] = (IF PM >= PN THEN PM ELSE PN) /\ p[4] = min(PM, PN)
            /\ calls # << >> =>
                   LET outs == calls[1].shape_with_layout
                   IN  /\ (outs[1].layout[1] = PNumBd + 1) <=> (PM < PN)
                       /\ Trailing(outs[3].dimensions) =
                              IF PM < PN THEN <<PN, PN>> ELSE <<PM, PM>>
                       /\ Trailing(outs[4].dimensions) =
                              IF PM < PN THEN <<PM, PM>> ELSE <<PN, PN>>
            /\ pc = "done" =>
                   /\ ret[1].index = 1
                   /\ ret[2].index = IF PM < PN THEN 3 ELSE 2
                   /\ ret[3].index = IF PM < PN THEN 2 ELSE 3
                   /\ ret[4].index = 4

C9_witness ==
    /\ op = "gesvd" /\ pc = "done"
    /\ args.a.dims = <<4, 2, 5>> /\ args.full_matrices
    /\ builds[1].params[3] = 5 /\ builds[1].params[4] = 2
    /\ ret[2].index = 3 /\ ret[2].dimensions = <<4, 2, 2>>
    /\ ret[3].index = 2 /\ ret[3].dimensions = <<4, 5, 5>>

\* the calls the operations reject before building a descriptor
Invalid ==
    CASE op = "trsm" ->
             \/ Len(args.b.dims) < 2
             \/ args.a.dims # PBatchDims \o <<IF args.left_side THEN PM ELSE PN,
                                              IF args.left_side THEN PM ELSE PN>>
             \/ args.a.dtype # args.b.dtype
             \/ (args.conj_a /\ ~args.trans_a)
      [] op \in {"potrf", "syevd"} -> Len(args.a.dims) < 2 \/ PM # PN
      [] op = "orgqr" ->
             \/ Len(args.a.dims) < 2
             \/ Len(args.tau) = 0
             \/ SubSeq(args.tau, 1, Len(args.tau) - 1) # PBatchDims
      [] op \in {"getrf", "geqrf", "gesvd"} -> Len(args.a.dims) < 2
      [] OTHER -> FALSE

\* C10: in every call the steps occur in the order validation, one descriptor
\* build, one custom call, output extraction.  A call that fails validation
\* invokes no descriptor builder; a call whose descriptor build fails
\* constructs no custom call and builds no second descriptor; the builder is
\* invoked at most once per call, and the custom call carries the opaque blob
\* the builder returned in that call.
C10_stage_order ==
    /\ \E j \in 0..4 : log = SubSeq(<<"validate", "build", "call", "extract">>, 1, j)
    /\ Len(builds) = (IF Len(log) >= 2 THEN 1 ELSE 0)
    /\ Len(calls) = (IF Len(log) >= 3 THEN 1 ELSE 0)
    /\ (ret # << >>) <=> (Len(log) = 4)
    /\ op # "none" =>
           /\ Invalid <=> (err \notin {"none", "BuildError"})
           /\ Invalid => (pc = "raised" /\ log = <<"validate">>
                          /\ builds = << >> /\ calls = << >> /\ ret = << >>)
    /\ err = "BuildError" =>
           (pc = "raised" /\ log = <<"validate", "build">>
            /\ Len(builds) = 1 /\ calls = << >> /\ ret = << >>)
    /\ builds # << >> => builds[1] = Descriptor(op, args)
    /\ calls # << >> =>
           (err = "none" /\ reply \in ProviderReplies
            /\ calls[1].opaque = reply.opaque)

C10_witness ==
    /\ pc = "done" /\ op = "syevd"
    /\ log = <<"validate", "build", "call", "extract">>
    /\ Len(builds) = 1 /\ Len(calls) = 1
    /\ calls[1].opaque = "desc1" /\ reply.opaque = "desc1"

====
